---- MODULE Spec2Model ----
(***************************************************************************)
(* GapAdvertisingData (src/ble/GapAdvertisingData.h): the 31-byte          *)
(* advertising payload, a sequence of [length][type][value...] records,    *)
(* and the operations that add, merge, replace and look up records in it.  *)
(*                                                                         *)
(* The object is laid out as _payload[31], _payloadLen, _appearance        *)
(* (lines 428-430), so the byte at &_payload[31] is _payloadLen.  A store  *)
(* through that address is out of bounds; the model keeps both outcomes a  *)
(* build can give: the store lands in _payloadLen, or it is not seen by    *)
(* the later read of _payloadLen.                                          *)
(*                                                                         *)
(* Two more objects of the library are modelled next to the store, each    *)
(* with its own variables and its own specification: DFUService            *)
(* (src/services/DFUService.h, DFUSpec) and DiscoveredCharacteristic       *)
(* (src/source/DiscoveredCharacteristic.cpp, GattSpec).  Spec and LiveSpec *)
(* are the store's; LiveSpec adds the public const findField, whose call   *)
(* does not return.  Spec follows a store whose length was overwritten     *)
(* only to clear(); WideSpec also follows one more addData on it.          *)
(***************************************************************************)
EXTENDS Integers, Sequences, FiniteSets, TLC

\* the advertising data store
VARIABLES _payload, _payloadLen, _appearance, call, nOps,
          wrapperCalls, appearanceWritten, pc, stack
\* the DFU service (src/services/DFUService.h) and the BLE device it uses
VARIABLES serviceAdded, handoverCallback, dfuServices, bleAddService,
          bleOnDataWritten, invoked, written
\* a discovered characteristic (src/source/DiscoveredCharacteristic.cpp) and
\* the GATT client it uses
VARIABLES characteristic, gattEvents, gattCall, nGattCalls

storeVars == <<_payload, _payloadLen, _appearance, call, nOps,
               wrapperCalls, appearanceWritten, pc, stack>>

dfuVars == <<serviceAdded, handoverCallback, dfuServices, bleAddService,
             bleOnDataWritten, invoked, written>>

gattVars == <<characteristic, gattEvents, gattCall, nGattCalls>>

vars == <<storeVars, dfuVars, gattVars>>

(***************************************************************************)
(* Program constants                                                       *)
(***************************************************************************)
GAP_ADVERTISING_DATA_MAX_PAYLOAD == 31

FLAGS == 1
INCOMPLETE_LIST_16BIT_SERVICE_IDS == 2
COMPLETE_LIST_16BIT_SERVICE_IDS == 3
INCOMPLETE_LIST_32BIT_SERVICE_IDS == 4
COMPLETE_LIST_32BIT_SERVICE_IDS == 5
INCOMPLETE_LIST_128BIT_SERVICE_IDS == 6
COMPLETE_LIST_128BIT_SERVICE_IDS == 7
SHORTENED_LOCAL_NAME == 8
COMPLETE_LOCAL_NAME == 9
TX_POWER_LEVEL == 10
DEVICE_ID == 16
SLAVE_CONNECTION_INTERVAL_RANGE == 18
LIST_128BIT_SOLICITATION_IDS == 21
SERVICE_DATA == 22
APPEARANCE == 25
ADVERTISING_INTERVAL == 26
MANUFACTURER_SPECIFIC_DATA == 255

LE_GENERAL_DISCOVERABLE == 2

\* BLEProtocol::AppearanceType::GENERIC_TAG, the constructor's _appearance
GENERIC_TAG == 512

\* the NULL pointer findField returns when no field matches
NULL == -1

BLE_ERROR_NONE == "BLE_ERROR_NONE"
BLE_ERROR_BUFFER_OVERFLOW == "BLE_ERROR_BUFFER_OVERFLOW"
BLE_ERROR_NOT_IMPLEMENTED == "BLE_ERROR_NOT_IMPLEMENTED"
BLE_ERROR_INVALID_PARAM == "BLE_ERROR_INVALID_PARAM"
BLE_ERROR_UNSPECIFIED == "BLE_ERROR_UNSPECIFIED"

\* the case labels of addData's switch: fields overwritten with the new value
ReplaceTypes ==
    {FLAGS, SHORTENED_LOCAL_NAME, COMPLETE_LOCAL_NAME, TX_POWER_LEVEL, DEVICE_ID,
     SLAVE_CONNECTION_INTERVAL_RANGE, SERVICE_DATA, APPEARANCE,
     ADVERTISING_INTERVAL, MANUFACTURER_SPECIFIC_DATA}

\* the case labels of addData's switch: fields that get the new data merged in
AppendTypes ==
    {INCOMPLETE_LIST_16BIT_SERVICE_IDS, COMPLETE_LIST_16BIT_SERVICE_IDS,
     INCOMPLETE_LIST_32BIT_SERVICE_IDS, COMPLETE_LIST_32BIT_SERVICE_IDS,
     INCOMPLETE_LIST_128BIT_SERVICE_IDS, COMPLETE_LIST_128BIT_SERVICE_IDS,
     LIST_128BIT_SOLICITATION_IDS}

(***************************************************************************)
(* Bounds of the model                                                     *)
(***************************************************************************)
\* operations applied to one store
MaxOps == 3
\* length of the long value that brings a store next to its capacity
BigLen == 27
\* activations of a function the stack has room for
MaxFrames == 3
\* DFUService objects constructed in one process
MaxServices == 3
\* calls made on one discovered characteristic
MaxCalls == 2

\* values handed to addData / updateData; the bytes 1, 3 and 13 are also
\* type tags, so a scan that looked inside values would be misled
Values == {<< >>, <<1>>, <<3>>, <<1, 3>>, [i \in 1..BigLen |-> 13]}

\* type tags handed to addData / updateData: a replace-class tag, an
\* append-class tag, APPEARANCE, and 13, a tag in neither case list
DataTypes == {FLAGS, COMPLETE_LIST_16BIT_SERVICE_IDS, APPEARANCE, 13}

\* arguments of the wrappers addAppearance, addFlags and addTxPower
Appearances == {512, 961}
FlagValues == {LE_GENERAL_DISCOVERABLE, 6}
TxPowers == {-20, 4}

U8(x) == x % 256

\* a buffer is the tuple of its bytes: byte i of the C array is element i + 1
At(p, i) == p[i + 1]
Put(p, i, x) == [p EXCEPT ![i + 1] = x]
Zeroed == [i \in 1..GAP_ADVERTISING_DATA_MAX_PAYLOAD |-> 0]

(***************************************************************************)
(* findField (private overload): scan the records for a type.              *)
(***************************************************************************)
\* mutant: compares the record's length byte, not its type byte
RECURSIVE findFieldLoop_ReadsLengthByte(_, _, _, _)
findFieldLoop_ReadsLengthByte(p, n, type, idx) ==
    IF idx < n
    THEN IF At(p, idx) = type
         THEN idx
         ELSE findFieldLoop_ReadsLengthByte(p, n, type, U8(idx + At(p, idx) + 1))
    ELSE NULL

\* the buffer indices the scan of findField reads
RECURSIVE findFieldReads(_, _, _, _)
findFieldReads(p, n, type, idx) ==
    IF idx < n
    THEN {idx + 1} \cup
         (IF At(p, idx + 1) = type
          THEN {}
          ELSE {idx} \cup findFieldReads(p, n, type, U8(idx + At(p, idx) + 1)))
    ELSE {}

RECURSIVE findFieldLoop(_, _, _, _)
findFieldLoop(p, n, type, idx) ==
    IF idx < n
    THEN IF At(p, idx + 1) = type
         THEN idx
         ELSE findFieldLoop(p, n, type, U8(idx + At(p, idx) + 1))
    ELSE NULL

findField(p, n, type) == findFieldLoop(p, n, type, 0)

(***************************************************************************)
(* memcpy / byte-copy loops: v[0..len) to p[at..at+len)                    *)
(***************************************************************************)
RECURSIVE CopyBytes(_, _, _, _)
CopyBytes(p, at, v, idx) ==
    IF idx < Len(v)
    THEN CopyBytes(Put(p, at + idx, v[idx + 1]), at, v, idx + 1)
    ELSE p

(***************************************************************************)
(* appendField: a new record at the end, if it fits.                       *)
(***************************************************************************)
\* mutant: the capacity check is off by one (>= for >)
appendField_OffByOne(p, n, type, v) ==
    IF n + Len(v) + 2 >= GAP_ADVERTISING_DATA_MAX_PAYLOAD
    THEN [payload |-> p, len |-> n, result |-> BLE_ERROR_BUFFER_OVERFLOW]
    ELSE LET p1 == Put(p, n, U8(Len(v) + 1))
             p2 == Put(p1, n + 1, U8(type))
             p3 == CopyBytes(p2, n + 2, v, 0)
         IN  [payload |-> p3, len |-> U8(n + 2 + Len(v)), result |-> BLE_ERROR_NONE]

appendField(p, n, type, v) ==
    IF n + Len(v) + 2 > GAP_ADVERTISING_DATA_MAX_PAYLOAD
    THEN [payload |-> p, len |-> n, result |-> BLE_ERROR_BUFFER_OVERFLOW]
    ELSE LET p1 == Put(p, n, U8(Len(v) + 1))
             p2 == Put(p1, n + 1, U8(type))
             p3 == CopyBytes(p2, n + 2, v, 0)
         IN  [payload |-> p3, len |-> U8(n + 2 + Len(v)), result |-> BLE_ERROR_NONE]

(***************************************************************************)
(* addData, replace case, "remove old field": m = [p, hi] is the buffer    *)
(* and the highest index the loop has touched.                             *)
(***************************************************************************)
\* mutant: the loop stops one byte before the end of the payload
RECURSIVE RemoveField_StopsEarly(_, _, _, _)
RemoveField_StopsEarly(m, field, dataLength, n) ==
    IF field + dataLength + 2 < n - 1
    THEN RemoveField_StopsEarly(
             [p  |-> Put(m.p, field, At(m.p, field + dataLength + 2)),
              hi |-> IF field + dataLength + 2 > m.hi
                     THEN field + dataLength + 2 ELSE m.hi],
             field + 1, dataLength, n)
    ELSE m

RECURSIVE RemoveField(_, _, _, _)
RemoveField(m, field, dataLength, n) ==
    IF field + dataLength + 2 < n
    THEN RemoveField(
             [p  |-> Put(m.p, field, At(m.p, field + dataLength + 2)),
              hi |-> IF field + dataLength + 2 > m.hi
                     THEN field + dataLength + 2 ELSE m.hi],
             field + 1, dataLength, n)
    ELSE m

(***************************************************************************)
(* addData, append case, "make room": mem is the object's first 32 bytes,  *)
(* _payload[0..30] followed by _payloadLen; end[len] = *end; end--.        *)
(***************************************************************************)
RECURSIVE MakeRoom(_, _, _, _)
MakeRoom(m, field, end, len) ==
    IF field + 1 < end
    THEN MakeRoom(
             [mem |-> Put(m.mem, end + len, At(m.mem, end)),
              hi  |-> IF end + len > m.hi THEN end + len ELSE m.hi],
             field, end - 1, len)
    ELSE m

(***************************************************************************)
(* addData: the set of outcomes of one call.  Each outcome gives the       *)
(* buffer, the length, the result and hi, the highest buffer index the     *)
(* shifting loops touched (-1 if none ran).                                *)
(***************************************************************************)
\* mutant: the old field is removed before the new one is known to fit
addDataReplace_NoFitCheck(p, n, type, v, field) ==
    LET dataLength == U8(At(p, field) - 1)
    IN  IF Len(v) = dataLength
        THEN {[payload |-> CopyBytes(p, field + 2, v, 0), len |-> n,
               result |-> BLE_ERROR_BUFFER_OVERFLOW, hi |-> -1]}
        ELSE LET m == RemoveField([p |-> p, hi |-> -1], field, dataLength, n)
                 r == appendField(m.p, U8(n - (dataLength + 2)), type, v)
             IN  {[payload |-> r.payload, len |-> r.len,
                   result |-> r.result, hi |-> m.hi]}

addDataReplace(p, n, type, v, field) ==
    LET dataLength == U8(At(p, field) - 1)
    IN  IF Len(v) = dataLength
        THEN {[payload |-> CopyBytes(p, field + 2, v, 0), len |-> n,
               result |-> BLE_ERROR_BUFFER_OVERFLOW, hi |-> -1]}
        ELSE IF n - dataLength + Len(v) <= GAP_ADVERTISING_DATA_MAX_PAYLOAD
             THEN LET m == RemoveField([p |-> p, hi |-> -1], field, dataLength, n)
                      r == appendField(m.p, U8(n - (dataLength + 2)), type, v)
                  IN  {[payload |-> r.payload, len |-> r.len,
                        result |-> r.result, hi |-> m.hi]}
             ELSE {[payload |-> p, len |-> n,
                    result |-> BLE_ERROR_BUFFER_OVERFLOW, hi |-> -1]}

addDataAppend(p, n, type, v, field) ==
    IF n + Len(v) <= GAP_ADVERTISING_DATA_MAX_PAYLOAD
    THEN LET mem0 == Append(p, n)
             m    == MakeRoom([mem |-> mem0, hi |-> -1], field, n, Len(v))
             p1   == SubSeq(m.mem, 1, GAP_ADVERTISING_DATA_MAX_PAYLOAD)
             p2   == CopyBytes(p1, field + 2, v, 0)
             p3   == Put(p2, field, U8(At(p2, field) + Len(v)))
         IN  \* the byte stored at &_payload[31] lands in _payloadLen, or the
             \* later "_payloadLen += len" does not see it
             {[payload |-> p3,
               len |-> U8((IF lands THEN At(m.mem, GAP_ADVERTISING_DATA_MAX_PAYLOAD) ELSE n)
                          + Len(v)),
               result |-> BLE_ERROR_NONE, hi |-> m.hi] : lands \in BOOLEAN}
    ELSE {[payload |-> p, len |-> n, result |-> BLE_ERROR_BUFFER_OVERFLOW, hi |-> -1]}

\* mutant: a tag in neither case list falls into the replace case
addData_DefaultReplaces(p, n, type, v) ==
    LET field == findField(p, n, type)
    IN  IF field # NULL
        THEN IF type \in AppendTypes THEN addDataAppend(p, n, type, v, field)
             ELSE addDataReplace(p, n, type, v, field)
        ELSE LET r == appendField(p, n, type, v)
             IN  {[payload |-> r.payload, len |-> r.len, result |-> r.result, hi |-> -1]}

addData(p, n, type, v) ==
    LET field == findField(p, n, type)
    IN  IF field # NULL
        THEN IF type \in ReplaceTypes THEN addDataReplace(p, n, type, v, field)
             ELSE IF type \in AppendTypes THEN addDataAppend(p, n, type, v, field)
             ELSE {[payload |-> p, len |-> n,
                    result |-> BLE_ERROR_NOT_IMPLEMENTED, hi |-> -1]}
        ELSE LET r == appendField(p, n, type, v)
             IN  {[payload |-> r.payload, len |-> r.len, result |-> r.result, hi |-> -1]}

(***************************************************************************)
(* updateData: overwrite the first record of that type and length.         *)
(***************************************************************************)
\* mutant: a record matches on its type alone, whatever its length
RECURSIVE updateDataLoop_TypeOnly(_, _, _, _, _)
updateDataLoop_TypeOnly(p, n, type, v, byteIndex) ==
    IF byteIndex < n
    THEN IF At(p, byteIndex + 1) = type
         THEN [payload |-> CopyBytes(p, byteIndex + 2, v, 0), result |-> BLE_ERROR_NONE]
         ELSE updateDataLoop_TypeOnly(p, n, type, v, U8(byteIndex + At(p, byteIndex) + 1))
    ELSE [payload |-> p, result |-> BLE_ERROR_UNSPECIFIED]

RECURSIVE updateDataLoop(_, _, _, _, _)
updateDataLoop(p, n, type, v, byteIndex) ==
    IF byteIndex < n
    THEN IF At(p, byteIndex) = Len(v) + 1 /\ At(p, byteIndex + 1) = type
         THEN [payload |-> CopyBytes(p, byteIndex + 2, v, 0), result |-> BLE_ERROR_NONE]
         ELSE updateDataLoop(p, n, type, v, U8(byteIndex + At(p, byteIndex) + 1))
    ELSE [payload |-> p, result |-> BLE_ERROR_UNSPECIFIED]

\* mutant: an empty value is scanned for like any other
updateData_EmptyScans(p, n, type, v, isNull) ==
    IF isNull
    THEN [payload |-> p, result |-> BLE_ERROR_INVALID_PARAM]
    ELSE updateDataLoop(p, n, type, v, 0)

updateData(p, n, type, v, isNull) ==
    IF isNull \/ Len(v) = 0
    THEN [payload |-> p, result |-> BLE_ERROR_INVALID_PARAM]
    ELSE updateDataLoop(p, n, type, v, 0)

(***************************************************************************)
(* The store still decodes: scanning from 0 by the length bytes ends       *)
(* exactly at n.  The loops of every operation index the buffer through    *)
(* _payloadLen and the length bytes; the model follows a store on which    *)
(* they no longer agree no further than clear().                           *)
(***************************************************************************)
RECURSIVE DecodesFrom(_, _, _)
DecodesFrom(p, n, idx) ==
    IF idx = n THEN TRUE
    ELSE IF idx + 1 >= n THEN FALSE
    ELSE IF At(p, idx) = 0 THEN FALSE
    ELSE DecodesFrom(p, n, idx + At(p, idx) + 1)

Decodes(p, n) == n <= GAP_ADVERTISING_DATA_MAX_PAYLOAD /\ DecodesFrom(p, n, 0)

(***************************************************************************)
(* DFUService (src/services/DFUService.h) and the BLEDevice it is given.   *)
(* serviceAdded is the constructor's function-local static and             *)
(* handoverCallback the static member, so both are shared by every         *)
(* DFUService of the process.  dfuServices are the objects constructed so  *)
(* far, each with the callback its constructor was given and the handle of *)
(* its controlPoint; bleAddService and bleOnDataWritten are the calls the  *)
(* BLEDevice has received, each naming the object that made it; invoked is *)
(* the order in which handover callbacks and bootloader_start were called; *)
(* written is the last write event the BLEDevice delivered, with the       *)
(* handlers it was delivered to.                                           *)
(***************************************************************************)
\* no handover callback: the default argument of the constructor
NoHandover == "NULL"

\* handover callbacks an application passes
Handovers == {NoHandover, "prepareA", "prepareB"}

\* the handle of a characteristic no service of which was added to the stack
INVALID_HANDLE == 0

\* attribute handles: the stack gives one of them to the control point when
\* the service is added, and writes arrive for any of them
Handles == {12, 14}

DFUInit ==
    /\ serviceAdded = FALSE
    /\ handoverCallback = NoHandover
    /\ dfuServices = << >>
    /\ bleAddService = << >>
    /\ bleOnDataWritten = << >>
    /\ invoked = << >>
    /\ written = [handlers |-> << >>, charHandle |-> INVALID_HANDLE,
                  preInvoked |-> << >>]

(***************************************************************************)
(* DiscoveredCharacteristic (src/source/DiscoveredCharacteristic.cpp) and  *)
(* the GattClient it forwards to.  characteristic holds the members props, *)
(* gattc, connHandle and valueHandle; gattEvents is, in order, what the    *)
(* client was asked: the requests issued to it and the one-shot callbacks  *)
(* launched on it; gattCall is the last call made on the characteristic    *)
(* and nGattCalls counts the calls.                                        *)
(***************************************************************************)
BLE_ERROR_OPERATION_NOT_PERMITTED == "BLE_ERROR_OPERATION_NOT_PERMITTED"
BLE_ERROR_INVALID_STATE == "BLE_ERROR_INVALID_STATE"
\* an error with which the client turns a request down
BLE_STACK_BUSY == "BLE_STACK_BUSY"

\* gattc of a characteristic no client is attached to
NoClient == "NULL"

\* what the client answers to a request
Answers == {BLE_ERROR_NONE, BLE_STACK_BUSY}

\* arguments of read and write, and the callbacks handed in
Offsets == {0, 2}
Lengths == {1, 2}
Callbacks == {"onA", "onB"}
\* the termination callback handed to discoverDescriptors
Terminations == {"onEnd"}

\* the characteristics discovery can yield
Characteristics ==
    [props : SUBSET {"read", "write", "writeWoResp", "notify", "indicate"},
     gattc : {NoClient, "client"},
     connHandle : {1}, valueHandle : {3}]

GattCalled(op, n, callback, answer, result) ==
    [op |-> op, n |-> n, callback |-> callback, answer |-> answer,
     result |-> result, preEvents |-> gattEvents]

GattInit ==
    /\ characteristic = [props |-> {}, gattc |-> NoClient, connHandle |-> 0,
                         valueHandle |-> INVALID_HANDLE]
    /\ gattEvents = << >>
    /\ gattCall = [op |-> "new", n |-> 0, callback |-> "", answer |-> BLE_ERROR_NONE,
                   result |-> BLE_ERROR_NONE, preEvents |-> << >>]
    /\ nGattCalls = 0

(***************************************************************************)
(* State machine                                                           *)
(***************************************************************************)
Called(op, type, v, isNull, result, hi) ==
    [op |-> op, type |-> type, value |-> v, isNull |-> isNull, result |-> result,
     hi |-> hi, prePayload |-> _payload, preLen |-> _payloadLen,
     preAppearance |-> _appearance, preOp |-> call.op]

\* wrapperCalls: the calls made on the store since it was last empty
\* (constructed or cleared), as long as they all were calls of the wrappers
\* addFlags, addAppearance and addTxPower
Emptied == [wrappersOnly |-> TRUE, calls |-> << >>]
NotWrapped == [wrappersOnly |-> FALSE, calls |-> << >>]
Wrapped(op, arg, result) ==
    IF wrapperCalls.wrappersOnly
    THEN [wrappersOnly |-> TRUE,
          calls |-> Append(wrapperCalls.calls,
                           [op |-> op, arg |-> arg, result |-> result])]
    ELSE wrapperCalls

\* the 16-bit value of a two-byte field as getAppearance() would give it;
\* NULL for a field of another length
Word(v) == IF Len(v) = 2 THEN v[1] + 256 * v[2] ELSE NULL

\* addData stored the bytes of v in the buffer: it returned BLE_ERROR_NONE,
\* or it overwrote a field of the same length in place
WroteField(p, n, type, v, result) ==
    \/ result = BLE_ERROR_NONE
    \/ LET field == findField(p, n, type)
       IN  /\ field # NULL
           /\ type \in ReplaceTypes
           /\ Len(v) = U8(At(p, field) - 1)

\* appearanceWritten: the value of the APPEARANCE field most recently
\* stored in the buffer, GENERIC_TAG while none was
AppearanceWritten(type, v, wrote) ==
    IF type = APPEARANCE /\ wrote THEN Word(v) ELSE appearanceWritten

Init ==
    /\ _payload = Zeroed
    /\ _payloadLen = 0
    /\ _appearance = GENERIC_TAG
    /\ call = [op |-> "new", type |-> 0, value |-> << >>, isNull |-> FALSE,
               result |-> BLE_ERROR_NONE, hi |-> -1,
               prePayload |-> Zeroed,
               preLen |-> 0, preAppearance |-> GENERIC_TAG, preOp |-> "new"]
    /\ nOps = 0
    /\ wrapperCalls = Emptied
    /\ appearanceWritten = GENERIC_TAG
    /\ pc = "idle"
    /\ stack = << >>
    /\ DFUInit
    /\ GattInit

CanCall == pc = "idle" /\ nOps < MaxOps /\ Decodes(_payload, _payloadLen)

AddData ==
    /\ CanCall
    /\ \E type \in DataTypes, v \in Values :
         \E r \in addData(_payload, _payloadLen, type, v) :
            /\ _payload' = r.payload
            /\ _payloadLen' = r.len
            /\ call' = Called("addData", type, v, FALSE, r.result, r.hi)
            /\ appearanceWritten' =
                   AppearanceWritten(type, v,
                       WroteField(_payload, _payloadLen, type, v, r.result))
    /\ nOps' = nOps + 1
    /\ wrapperCalls' = NotWrapped
    /\ UNCHANGED <<_appearance, pc, stack>>
    /\ UNCHANGED <<dfuVars, gattVars>>

UpdateData ==
    /\ CanCall
    /\ \E type \in DataTypes, v \in Values, isNull \in BOOLEAN :
         LET r == updateData(_payload, _payloadLen, type, v, isNull)
         IN  /\ isNull => Len(v) = 1
             /\ _payload' = r.payload
             /\ call' = Called("updateData", type, v, isNull, r.result, -1)
             /\ appearanceWritten' =
                    AppearanceWritten(type, v, r.result = BLE_ERROR_NONE)
    /\ nOps' = nOps + 1
    /\ wrapperCalls' = NotWrapped
    /\ UNCHANGED <<_payloadLen, _appearance, pc, stack>>
    /\ UNCHANGED <<dfuVars, gattVars>>

\* mutant: only the low byte of the appearance is added
AppearanceBytes_OneByte(appearance) == <<appearance % 256>>

\* addAppearance: caches the value, then adds its two bytes as they lie in
\* memory (low byte first on the little-endian targets of this library)
AppearanceBytes(appearance) == <<appearance % 256, appearance \div 256>>

AddAppearance ==
    /\ CanCall
    /\ \E appearance \in Appearances :
         \E r \in addData(_payload, _payloadLen, APPEARANCE, AppearanceBytes(appearance)) :
            /\ _appearance' = appearance
            /\ _payload' = r.payload
            /\ _payloadLen' = r.len
            /\ call' = Called("addAppearance", APPEARANCE, AppearanceBytes(appearance),
                              FALSE, r.result, r.hi)
            /\ wrapperCalls' = Wrapped("addAppearance", appearance, r.result)
            /\ appearanceWritten' =
                   AppearanceWritten(APPEARANCE, AppearanceBytes(appearance),
                       WroteField(_payload, _payloadLen, APPEARANCE,
                                  AppearanceBytes(appearance), r.result))
    /\ nOps' = nOps + 1
    /\ UNCHANGED <<pc, stack>>
    /\ UNCHANGED <<dfuVars, gattVars>>

AddFlags ==
    /\ CanCall
    /\ \E flags \in FlagValues :
         \E r \in addData(_payload, _payloadLen, FLAGS, <<flags>>) :
            /\ _payload' = r.payload
            /\ _payloadLen' = r.len
            /\ call' = Called("addFlags", FLAGS, <<flags>>, FALSE, r.result, r.hi)
            /\ wrapperCalls' = Wrapped("addFlags", flags, r.result)
    /\ nOps' = nOps + 1
    /\ UNCHANGED <<_appearance, appearanceWritten, pc, stack>>
    /\ UNCHANGED <<dfuVars, gattVars>>

\* addTxPower: the int8_t is added as its one byte
AddTxPower ==
    /\ CanCall
    /\ \E txPower \in TxPowers :
         \E r \in addData(_payload, _payloadLen, TX_POWER_LEVEL, <<U8(txPower)>>) :
            /\ _payload' = r.payload
            /\ _payloadLen' = r.len
            /\ call' = Called("addTxPower", TX_POWER_LEVEL, <<U8(txPower)>>, FALSE,
                              r.result, r.hi)
            /\ wrapperCalls' = Wrapped("addTxPower", txPower, r.result)
    /\ nOps' = nOps + 1
    /\ UNCHANGED <<_appearance, appearanceWritten, pc, stack>>
    /\ UNCHANGED <<dfuVars, gattVars>>

\* mutant: the length is reset, the bytes stay
Clear_KeepsBytes ==
    /\ pc = "idle"
    /\ nOps < MaxOps
    /\ _payloadLen' = 0
    /\ call' = Called("clear", 0, << >>, FALSE, BLE_ERROR_NONE, -1)
    /\ nOps' = nOps + 1
    /\ wrapperCalls' = Emptied
    /\ UNCHANGED <<_payload, _appearance, appearanceWritten, pc, stack>>
    /\ UNCHANGED <<dfuVars, gattVars>>

Clear ==
    /\ pc = "idle"
    /\ nOps < MaxOps
    /\ _payload' = Zeroed
    /\ _payloadLen' = 0
    /\ call' = Called("clear", 0, << >>, FALSE, BLE_ERROR_NONE, -1)
    /\ nOps' = nOps + 1
    /\ wrapperCalls' = Emptied
    /\ UNCHANGED <<_appearance, appearanceWritten, pc, stack>>
    /\ UNCHANGED <<dfuVars, gattVars>>

Next ==
    \/ AddData
    \/ UpdateData
    \/ AddAppearance
    \/ AddFlags
    \/ AddTxPower
    \/ Clear

Spec == Init /\ [][Next]_vars

(***************************************************************************)
(* findField (public const overload, lines 376-378).  Its body is          *)
(* "return findField(type);": in a const member function the call resolves *)
(* to the const overload, that is, to the function itself.  stack holds    *)
(* the activations of the call in progress, each with its argument.  A     *)
(* build that pushes a frame for each call exhausts the stack after        *)
(* MaxFrames activations and the program faults; a build that turns the    *)
(* call into a jump stays in the one activation, which is a behaviour that *)
(* stutters with pc = "findField".  There is no return.                    *)
(***************************************************************************)
ConstFindField ==
    /\ CanCall
    /\ \E type \in DataTypes : stack' = <<type>>
    /\ pc' = "findField"
    /\ UNCHANGED <<_payload, _payloadLen, _appearance, call, nOps,
                   wrapperCalls, appearanceWritten>>
    /\ UNCHANGED <<dfuVars, gattVars>>

ConstFindFieldRecurse ==
    /\ pc = "findField"
    /\ Len(stack) < MaxFrames
    /\ stack' = Append(stack, stack[Len(stack)])
    /\ UNCHANGED <<_payload, _payloadLen, _appearance, call, nOps,
                   wrapperCalls, appearanceWritten, pc>>
    /\ UNCHANGED <<dfuVars, gattVars>>

ConstFindFieldFault ==
    /\ pc = "findField"
    /\ Len(stack) = MaxFrames
    /\ pc' = "fault"
    /\ UNCHANGED <<_payload, _payloadLen, _appearance, call, nOps,
                   wrapperCalls, appearanceWritten, stack>>
    /\ UNCHANGED <<dfuVars, gattVars>>

LiveNext ==
    \/ Next
    \/ ConstFindField
    \/ ConstFindFieldRecurse
    \/ ConstFindFieldFault

\* a call in progress keeps running
LiveSpec ==
    Init /\ [][LiveNext]_vars /\ WF_vars(ConstFindFieldRecurse \/ ConstFindFieldFault)

(***************************************************************************)
(* addData on a store whose length the store through &_payload[31] has     *)
(* overwritten.  Spec follows such a store no further than clear(); here   *)
(* one more addData is followed, for the calls that stay inside the        *)
(* object: the scan of findField reads only bytes of the buffer and finds  *)
(* no record of the type, so that the call is appendField at the           *)
(* overwritten length.                                                     *)
(***************************************************************************)
\* the scan by the length bytes reads type bytes inside the buffer only
RECURSIVE ScanInBuffer(_, _, _)
ScanInBuffer(p, n, idx) ==
    IF idx >= n THEN TRUE
    ELSE IF idx + 1 >= GAP_ADVERTISING_DATA_MAX_PAYLOAD THEN FALSE
    ELSE ScanInBuffer(p, n, idx + At(p, idx) + 1)

AddDataOverwritten ==
    /\ pc = "idle"
    /\ nOps <= MaxOps
    /\ ~Decodes(_payload, _payloadLen)
    /\ _payloadLen <= GAP_ADVERTISING_DATA_MAX_PAYLOAD
    /\ ScanInBuffer(_payload, _payloadLen, 0)
    /\ \E type \in DataTypes, v \in Values :
         /\ findField(_payload, _payloadLen, type) = NULL
         /\ \E r \in addData(_payload, _payloadLen, type, v) :
              /\ _payload' = r.payload
              /\ _payloadLen' = r.len
              /\ call' = Called("addData", type, v, FALSE, r.result, r.hi)
              /\ appearanceWritten' =
                     AppearanceWritten(type, v,
                         WroteField(_payload, _payloadLen, type, v, r.result))
    /\ nOps' = nOps + 1
    /\ wrapperCalls' = NotWrapped
    /\ UNCHANGED <<_appearance, pc, stack>>
    /\ UNCHANGED <<dfuVars, gattVars>>

WideNext ==
    \/ Next
    \/ AddDataOverwritten

WideSpec == Init /\ [][WideNext]_vars

(***************************************************************************)
(* DFUService: construction, and the write events the BLEDevice delivers   *)
(* to the handlers registered with onDataWritten.                          *)
(***************************************************************************)
\* bootloader_start hands the device over to the bootloader: the
\* application does not run on
inBootloader == invoked # << >> /\ invoked[Len(invoked)] = "bootloader_start"

\* mutant: every construction adds the service and registers its handler
DFUServiceNew_AddsAgain ==
    /\ ~inBootloader
    /\ Len(dfuServices) < MaxServices
    /\ \E _handoverCallback \in Handovers, handle \in Handles :
         /\ dfuServices' = Append(dfuServices,
                [handoverCallback |-> _handoverCallback, handle |-> handle])
         /\ bleAddService' = Append(bleAddService, Len(dfuServices) + 1)
         /\ handoverCallback' = _handoverCallback
         /\ serviceAdded' = TRUE
         /\ bleOnDataWritten' = Append(bleOnDataWritten, Len(dfuServices) + 1)
    /\ UNCHANGED <<invoked, written>>
    /\ UNCHANGED <<storeVars, gattVars>>

\* DFUService::DFUService(_ble, _handoverCallback); handle is the handle
\* ble.addService gives the control point
DFUServiceNew ==
    /\ ~inBootloader
    /\ Len(dfuServices) < MaxServices
    /\ \E _handoverCallback \in Handovers, handle \in Handles :
         IF serviceAdded
         THEN /\ dfuServices' = Append(dfuServices,
                     [handoverCallback |-> _handoverCallback,
                      handle |-> INVALID_HANDLE])
              /\ UNCHANGED <<serviceAdded, handoverCallback, bleAddService,
                             bleOnDataWritten>>
         ELSE /\ dfuServices' = Append(dfuServices,
                     [handoverCallback |-> _handoverCallback, handle |-> handle])
              /\ bleAddService' = Append(bleAddService, Len(dfuServices) + 1)
              /\ handoverCallback' = _handoverCallback
              /\ serviceAdded' = TRUE
              /\ bleOnDataWritten' = Append(bleOnDataWritten, Len(dfuServices) + 1)
    /\ UNCHANGED <<invoked, written>>
    /\ UNCHANGED <<storeVars, gattVars>>

\* mutant: the bootloader is started before the application is told
onDataWritten_StartsFirst(service, charHandle, calls) ==
    IF charHandle = service.handle
    THEN calls \o <<"bootloader_start">>
               \o (IF handoverCallback # NoHandover THEN <<handoverCallback>> ELSE << >>)
    ELSE calls

\* DFUService::onDataWritten(params) of one service: the calls it makes,
\* after those made before
onDataWritten(service, charHandle, calls) ==
    IF charHandle = service.handle
    THEN calls \o (IF handoverCallback # NoHandover THEN <<handoverCallback>> ELSE << >>)
               \o <<"bootloader_start">>
    ELSE calls

\* the BLEDevice calls the registered handlers in turn, as long as the
\* application runs
RECURSIVE Deliver(_, _, _)
Deliver(handlers, charHandle, calls) ==
    IF handlers = << >> \/ (calls # << >> /\ calls[Len(calls)] = "bootloader_start")
    THEN calls
    ELSE Deliver(Tail(handlers), charHandle,
                 onDataWritten(dfuServices[Head(handlers)], charHandle, calls))

\* a peer writes the characteristic with handle charHandle
DataWritten ==
    /\ ~inBootloader
    /\ \E charHandle \in Handles :
         /\ invoked' = Deliver(bleOnDataWritten, charHandle, invoked)
         /\ written' = [handlers |-> bleOnDataWritten, charHandle |-> charHandle,
                        preInvoked |-> invoked]
    /\ UNCHANGED <<serviceAdded, handoverCallback, dfuServices, bleAddService,
                   bleOnDataWritten>>
    /\ UNCHANGED <<storeVars, gattVars>>

DFUNext ==
    \/ DFUServiceNew
    \/ DataWritten

DFUSpec == Init /\ [][DFUNext]_vars

(***************************************************************************)
(* DiscoveredCharacteristic: each operation gives its result and the       *)
(* events after it.  answer is what the client returns if it is asked.     *)
(***************************************************************************)
Request(c, op, n) ==
    [event |-> "request", op |-> op, connHandle |-> c.connHandle,
     valueHandle |-> c.valueHandle, n |-> n, callback |-> ""]

Launch(c, op, callback) ==
    [event |-> "launch", op |-> op, connHandle |-> c.connHandle,
     valueHandle |-> c.valueHandle, n |-> 0, callback |-> callback]

\* mutant: the client is checked before the property
read_ClientFirst(c, offset, events, answer) ==
    IF c.gattc = NoClient
    THEN [result |-> BLE_ERROR_INVALID_STATE, events |-> events]
    ELSE IF "read" \notin c.props
    THEN [result |-> BLE_ERROR_OPERATION_NOT_PERMITTED, events |-> events]
    ELSE [result |-> answer, events |-> Append(events, Request(c, "read", offset))]

read(c, offset, events, answer) ==
    IF "read" \notin c.props
    THEN [result |-> BLE_ERROR_OPERATION_NOT_PERMITTED, events |-> events]
    ELSE IF c.gattc = NoClient
    THEN [result |-> BLE_ERROR_INVALID_STATE, events |-> events]
    ELSE [result |-> answer, events |-> Append(events, Request(c, "read", offset))]

\* mutant: the one-shot callback is launched whatever read returned
readWithCallback_LaunchesAlways(c, offset, onRead, events, answer) ==
    LET r == read(c, offset, events, answer)
    IN  [result |-> r.result,
         events |-> Append(r.events, Launch(c, "OneShotReadCallback", onRead))]

readWithCallback(c, offset, onRead, events, answer) ==
    LET r == read(c, offset, events, answer)
    IN  IF r.result # BLE_ERROR_NONE
        THEN r
        ELSE [result |-> r.result,
              events |-> Append(r.events, Launch(c, "OneShotReadCallback", onRead))]

write(c, length, events, answer) ==
    IF "write" \notin c.props
    THEN [result |-> BLE_ERROR_OPERATION_NOT_PERMITTED, events |-> events]
    ELSE IF c.gattc = NoClient
    THEN [result |-> BLE_ERROR_INVALID_STATE, events |-> events]
    ELSE [result |-> answer,
          events |-> Append(events, Request(c, "GATT_OP_WRITE_REQ", length))]

writeWoResponse(c, length, events, answer) ==
    IF "writeWoResp" \notin c.props
    THEN [result |-> BLE_ERROR_OPERATION_NOT_PERMITTED, events |-> events]
    ELSE IF c.gattc = NoClient
    THEN [result |-> BLE_ERROR_INVALID_STATE, events |-> events]
    ELSE [result |-> answer,
          events |-> Append(events, Request(c, "GATT_OP_WRITE_CMD", length))]

writeWithCallback(c, length, onWrite, events, answer) ==
    LET r == write(c, length, events, answer)
    IN  IF r.result # BLE_ERROR_NONE
        THEN r
        ELSE [result |-> r.result,
              events |-> Append(r.events, Launch(c, "OneShotWriteCallback", onWrite))]

\* the client is asked to discover the descriptors of c
Discovery(c, onCharacteristicDiscovered, onTermination) ==
    [event |-> "request", op |-> "discoverCharacteristicDescriptors",
     connHandle |-> c.connHandle, valueHandle |-> c.valueHandle, n |-> 0,
     callback |-> onCharacteristicDiscovered, onTermination |-> onTermination]

discoverDescriptors(c, onCharacteristicDiscovered, onTermination, events, answer) ==
    IF c.gattc = NoClient
    THEN [result |-> BLE_ERROR_INVALID_STATE, events |-> events]
    ELSE [result |-> answer,
          events |-> Append(events, Discovery(c, onCharacteristicDiscovered, onTermination))]

\* notificationValue | (indicationValue << 1)
CCCDValue(indicationValue, notificationValue) ==
    (IF notificationValue THEN 1 ELSE 0) + (IF indicationValue THEN 2 ELSE 0)

\* the helper is launched on c.gattc as it is, attached or not
CCCDSetterLaunch(c, writeCallback, value) ==
    [event |-> "launch", op |-> "CCCDSetter", gattc |-> c.gattc,
     connHandle |-> c.connHandle, valueHandle |-> c.valueHandle, n |-> value,
     callback |-> writeCallback]

setCCCD(c, indicationValue, notificationValue, writeCallback, events) ==
    IF "notify" \notin c.props /\ notificationValue
    THEN [result |-> BLE_ERROR_OPERATION_NOT_PERMITTED, events |-> events]
    ELSE IF "indicate" \notin c.props /\ indicationValue
    THEN [result |-> BLE_ERROR_OPERATION_NOT_PERMITTED, events |-> events]
    ELSE [result |-> BLE_ERROR_NONE,
          events |-> Append(events, CCCDSetterLaunch(c, writeCallback,
                                        CCCDValue(indicationValue, notificationValue)))]

\* discovery hands the application a characteristic
Discovered ==
    /\ nGattCalls = 0
    /\ characteristic.valueHandle = INVALID_HANDLE
    /\ characteristic' \in Characteristics
    /\ UNCHANGED <<gattEvents, gattCall, nGattCalls>>
    /\ UNCHANGED <<storeVars, dfuVars>>

Read ==
    /\ nGattCalls < MaxCalls
    /\ \E offset \in Offsets, answer \in Answers :
         LET r == read(characteristic, offset, gattEvents, answer)
         IN  /\ gattEvents' = r.events
             /\ gattCall' = GattCalled("read", offset, "", answer, r.result)
    /\ nGattCalls' = nGattCalls + 1
    /\ UNCHANGED characteristic
    /\ UNCHANGED <<storeVars, dfuVars>>

ReadWithCallback ==
    /\ nGattCalls < MaxCalls
    /\ \E offset \in Offsets, onRead \in Callbacks, answer \in Answers :
         LET r == readWithCallback(characteristic, offset, onRead, gattEvents, answer)
         IN  /\ gattEvents' = r.events
             /\ gattCall' = GattCalled("readWithCallback", offset, onRead, answer, r.result)
    /\ nGattCalls' = nGattCalls + 1
    /\ UNCHANGED characteristic
    /\ UNCHANGED <<storeVars, dfuVars>>

Write ==
    /\ nGattCalls < MaxCalls
    /\ \E length \in Lengths, answer \in Answers :
         LET r == write(characteristic, length, gattEvents, answer)
         IN  /\ gattEvents' = r.events
             /\ gattCall' = GattCalled("write", length, "", answer, r.result)
    /\ nGattCalls' = nGattCalls + 1
    /\ UNCHANGED characteristic
    /\ UNCHANGED <<storeVars, dfuVars>>

WriteWoResponse ==
    /\ nGattCalls < MaxCalls
    /\ \E length \in Lengths, answer \in Answers :
         LET r == writeWoResponse(characteristic, length, gattEvents, answer)
         IN  /\ gattEvents' = r.events
             /\ gattCall' = GattCalled("writeWoResponse", length, "", answer, r.result)
    /\ nGattCalls' = nGattCalls + 1
    /\ UNCHANGED characteristic
    /\ UNCHANGED <<storeVars, dfuVars>>

WriteWithCallback ==
    /\ nGattCalls < MaxCalls
    /\ \E length \in Lengths, onWrite \in Callbacks, answer \in Answers :
         LET r == writeWithCallback(characteristic, length, onWrite, gattEvents, answer)
         IN  /\ gattEvents' = r.events
             /\ gattCall' = GattCalled("writeWithCallback", length, onWrite, answer, r.result)
    /\ nGattCalls' = nGattCalls + 1
    /\ UNCHANGED characteristic
    /\ UNCHANGED <<storeVars, dfuVars>>

DiscoverDescriptors ==
    /\ nGattCalls < MaxCalls
    /\ \E onCharacteristicDiscovered \in Callbacks, onTermination \in Terminations,
          answer \in Answers :
         LET r == discoverDescriptors(characteristic, onCharacteristicDiscovered,
                                      onTermination, gattEvents, answer)
         IN  /\ gattEvents' = r.events
             /\ gattCall' = GattCalled("discoverDescriptors", 0,
                                       onCharacteristicDiscovered, answer, r.result)
    /\ nGattCalls' = nGattCalls + 1
    /\ UNCHANGED characteristic
    /\ UNCHANGED <<storeVars, dfuVars>>

SetCCCD ==
    /\ nGattCalls < MaxCalls
    /\ \E indicationValue \in BOOLEAN, notificationValue \in BOOLEAN,
          writeCallback \in Callbacks :
         LET r == setCCCD(characteristic, indicationValue, notificationValue,
                          writeCallback, gattEvents)
         IN  /\ gattEvents' = r.events
             /\ gattCall' = GattCalled("setCCCD",
                                       CCCDValue(indicationValue, notificationValue),
                                       writeCallback, BLE_ERROR_NONE, r.result)
    /\ nGattCalls' = nGattCalls + 1
    /\ UNCHANGED characteristic
    /\ UNCHANGED <<storeVars, dfuVars>>

GattNext ==
    \/ Discovered
    \/ Read
    \/ ReadWithCallback
    \/ Write
    \/ WriteWoResponse
    \/ WriteWithCallback
    \/ DiscoverDescriptors
    \/ SetCCCD

GattSpec == Init /\ [][GattNext]_vars

(***************************************************************************)
(* Reading a store as records, for stating the properties: the records of  *)
(* a store that decodes, each with its offset, type byte and value bytes.  *)
(***************************************************************************)
RECURSIVE RecordsFrom(_, _, _)
RecordsFrom(p, n, idx) ==
    IF idx >= n
    THEN << >>
    ELSE <<[at |-> idx, type |-> At(p, idx + 1),
            value |-> [i \in 1..(At(p, idx) - 1) |-> At(p, idx + 1 + i)]]>>
         \o RecordsFrom(p, n, idx + At(p, idx) + 1)

Records(p, n) == RecordsFrom(p, n, 0)

\* the (type, value) pairs of a sequence of records, in order
Fields(recs) == [i \in 1..Len(recs) |-> <<recs[i].type, recs[i].value>>]

\* the indices of the records of a type
OfType(recs, type) == {i \in 1..Len(recs) : recs[i].type = type}

\* the first record of a type (the one a scan from offset 0 meets)
FirstOfType(recs, type) ==
    CHOOSE i \in OfType(recs, type) : \A j \in OfType(recs, type) : i <= j

\* the value bytes of the record whose length byte is at offset at
ValueAt(p, at) == [j \in 1..(At(p, at) - 1) |-> At(p, at + 1 + j)]

\* the sequence without its element at index k
Without(seq, k) == [i \in 1..(Len(seq) - 1) |-> IF i < k THEN seq[i] ELSE seq[i + 1]]

\* the last call went through addData: directly or through a wrapper
IsAdd == call.op \in {"addData", "addAppearance", "addFlags", "addTxPower"}

PreRecords == Records(call.prePayload, call.preLen)
PostRecords == Records(_payload, _payloadLen)

\* the last call left the buffer and the length as they were
Unchanged == _payload = call.prePayload /\ _payloadLen = call.preLen

\* the value length of the last call
N == Len(call.value)

(***************************************************************************)
(* C1.  After any sequence of operations from an empty store, scanning the *)
(* buffer from offset 0 as length-prefixed records decodes exactly         *)
(* getPayloadLen() bytes: the (recordLength + 1) of the scanned records    *)
(* sum to getPayloadLen(), no record has recordLength 0, and               *)
(* getPayloadLen() is at most 31.                                          *)
(***************************************************************************)
RECURSIVE ScanSum(_, _, _)
ScanSum(p, n, idx) == IF idx < n THEN ScanSum(p, n, idx + At(p, idx) + 1) ELSE idx

RECURSIVE ScanHasZero(_, _, _)
ScanHasZero(p, n, idx) ==
    IF idx < n THEN At(p, idx) = 0 \/ ScanHasZero(p, n, idx + At(p, idx) + 1) ELSE FALSE

C1_ScanDecodesPayloadLen ==
    /\ _payloadLen <= GAP_ADVERTISING_DATA_MAX_PAYLOAD
    /\ ScanSum(_payload, _payloadLen, 0) = _payloadLen
    /\ ~ScanHasZero(_payload, _payloadLen, 0)

(***************************************************************************)
(* C2.  The buffer is mutated on success only: an addData call that        *)
(* returns anything other than BLE_ERROR_NONE leaves the payload bytes and *)
(* the payload length as they were before the call.                        *)
(***************************************************************************)
C2_MutatedOnSuccessOnly ==
    (IsAdd /\ call.result # BLE_ERROR_NONE) => Unchanged

(***************************************************************************)
(* C3.  Append-class merge: when a record of an append-class type exists   *)
(* with value old and length + n <= 31, addData(type, v, n) succeeds and   *)
(* leaves exactly one record of that type, whose value is old followed by  *)
(* v; the payload length grows by n and every record that followed it is   *)
(* intact and still after it.                                              *)
(***************************************************************************)
C3_AppendMerge ==
    (/\ IsAdd
     /\ call.type \in AppendTypes
     /\ OfType(PreRecords, call.type) # {}
     /\ call.preLen + N <= GAP_ADVERTISING_DATA_MAX_PAYLOAD)
    => LET k == FirstOfType(PreRecords, call.type)
       IN  /\ call.result = BLE_ERROR_NONE
           /\ _payloadLen = call.preLen + N
           /\ Decodes(_payload, _payloadLen)
           /\ Fields(PostRecords) =
                  [Fields(PreRecords) EXCEPT
                      ![k] = <<call.type, PreRecords[k].value \o call.value>>]

(***************************************************************************)
(* C4.  Replace-class, same length: when a record of a replace-class type  *)
(* exists with value length n, addData(type, v, n) returns BLE_ERROR_NONE, *)
(* leaves the payload length unchanged, changes no byte outside that       *)
(* record's value region, and the record's value is then v.                *)
(***************************************************************************)
C4_ReplaceSameLength ==
    (/\ IsAdd
     /\ call.type \in ReplaceTypes
     /\ \E i \in OfType(PreRecords, call.type) : Len(PreRecords[i].value) = N)
    => LET k == FirstOfType(PreRecords, call.type)
           at == PreRecords[k].at
       IN  /\ call.result = BLE_ERROR_NONE
           /\ _payloadLen = call.preLen
           /\ \A i \in 0..(GAP_ADVERTISING_DATA_MAX_PAYLOAD - 1) :
                  (i < at + 2 \/ i >= at + 2 + N)
                  => At(_payload, i) = At(call.prePayload, i)
           /\ \A j \in 1..N : At(_payload, at + 1 + j) = call.value[j]

(***************************************************************************)
(* C5.  Replace-class, different length: when a record of a replace-class  *)
(* type exists with value length L and addData(type, v, L2) with L2 # L    *)
(* fits (length - L + L2 <= 31), the call succeeds, the payload length     *)
(* changes by exactly L2 - L, the other records keep their bytes and their *)
(* relative order with no gap, and the type has a single record, at the    *)
(* end, with value v.                                                      *)
(***************************************************************************)
C5_Case ==
    /\ IsAdd
    /\ call.type \in ReplaceTypes
    /\ OfType(PreRecords, call.type) # {}
    /\ Len(PreRecords[FirstOfType(PreRecords, call.type)].value) # N
    /\ call.preLen - Len(PreRecords[FirstOfType(PreRecords, call.type)].value) + N
           <= GAP_ADVERTISING_DATA_MAX_PAYLOAD

C6_Case == IsAdd /\ OfType(PreRecords, call.type) = {}

C6_NewRecordAndCapacity ==
    C6_Case
    => /\ (call.result = BLE_ERROR_NONE)
              <=> (call.preLen + N + 2 <= GAP_ADVERTISING_DATA_MAX_PAYLOAD)
       /\ call.result = BLE_ERROR_NONE
              => /\ _payloadLen = call.preLen + N + 2
                 /\ At(_payload, call.preLen) = N + 1
                 /\ At(_payload, call.preLen + 1) = call.type
                 /\ \A j \in 1..N : At(_payload, call.preLen + 1 + j) = call.value[j]
                 /\ \A i \in 0..(call.preLen - 1) :
                        At(_payload, i) = At(call.prePayload, i)
       /\ call.result # BLE_ERROR_NONE
              => /\ call.result = BLE_ERROR_BUFFER_OVERFLOW
                 /\ _payloadLen = call.preLen

\* a new record that needs exactly the remaining capacity of a non-empty store
C6_Witness ==
    /\ C6_Case
    /\ call.preLen > 0
    /\ call.result = BLE_ERROR_NONE
    /\ _payloadLen = GAP_ADVERTISING_DATA_MAX_PAYLOAD

(***************************************************************************)
(* C7.  Overflow on an existing field: for an existing replace-class       *)
(* record of value length L, addData with a different length n where       *)
(* length - L + n > 31 returns BLE_ERROR_BUFFER_OVERFLOW; for an existing  *)
(* append-class record, addData with length + n > 31 returns               *)
(* BLE_ERROR_BUFFER_OVERFLOW; both leave the payload bytes and the length  *)
(* unchanged.                                                              *)
(***************************************************************************)
C7_ReplaceCase ==
    /\ IsAdd
    /\ call.type \in ReplaceTypes
    /\ OfType(PreRecords, call.type) # {}
    /\ Len(PreRecords[FirstOfType(PreRecords, call.type)].value) # N
    /\ call.preLen - Len(PreRecords[FirstOfType(PreRecords, call.type)].value) + N
           > GAP_ADVERTISING_DATA_MAX_PAYLOAD

C7_AppendCase ==
    /\ IsAdd
    /\ call.type \in AppendTypes
    /\ OfType(PreRecords, call.type) # {}
    /\ call.preLen + N > GAP_ADVERTISING_DATA_MAX_PAYLOAD

C7_OverflowOnExistingField ==
    (C7_ReplaceCase \/ C7_AppendCase)
    => (call.result = BLE_ERROR_BUFFER_OVERFLOW /\ Unchanged)

\* a replace that does not fit, of a record that has another record after it
C7_Witness ==
    /\ C7_ReplaceCase
    /\ FirstOfType(PreRecords, call.type) < Len(PreRecords)
    /\ call.result = BLE_ERROR_BUFFER_OVERFLOW

(***************************************************************************)
(* C8.  Read-your-write, as claimed: immediately after any addData(type,   *)
(* v, n) that returns BLE_ERROR_NONE (new record, replace or append path), *)
(* findField(type) returns the position of a record of that type whose     *)
(* value equals v.                                                         *)
(***************************************************************************)
C8_ReadsValue ==
    LET f == findField(_payload, _payloadLen, call.type)
    IN  /\ f # NULL
        /\ At(_payload, f + 1) = call.type
        /\ ValueAt(_payload, f) = call.value

C8_Merged == call.type \in AppendTypes /\ OfType(PreRecords, call.type) # {}

C9_Case == IsAdd /\ call.type \notin (ReplaceTypes \cup AppendTypes)

Layout(recs) == [i \in 1..Len(recs) |-> <<recs[i].at, recs[i].type, Len(recs[i].value) + 1>>]

\* the records the call's type and length match
C10_Matches == {k \in OfType(PreRecords, call.type) : Len(PreRecords[k].value) = N}

C10_UpdateDataKeepsLayout ==
    (call.op = "updateData")
    => /\ _payloadLen = call.preLen
       /\ Layout(PostRecords) = Layout(PreRecords)
       /\ \/ _payload = call.prePayload
          \/ \E k \in 1..Len(PreRecords) :
                \A i \in 0..(GAP_ADVERTISING_DATA_MAX_PAYLOAD - 1) :
                    (i < PreRecords[k].at + 2
                        \/ i >= PreRecords[k].at + 2 + Len(PreRecords[k].value))
                    => At(_payload, i) = At(call.prePayload, i)
       /\ (~call.isNull /\ N > 0)
          => /\ (call.result = BLE_ERROR_NONE) <=> (C10_Matches # {})
             /\ call.result = BLE_ERROR_NONE
                    => PostRecords[CHOOSE k \in C10_Matches :
                                       \A j \in C10_Matches : k <= j].value
                           = call.value

\* an update that changed the value of a record behind another record
C10_Witness ==
    /\ call.op = "updateData"
    /\ call.result = BLE_ERROR_NONE
    /\ _payload # call.prePayload
    /\ \E k \in C10_Matches : k > 1

(***************************************************************************)
(* C11.  updateData returns BLE_ERROR_INVALID_PARAM when the value is      *)
(* absent or its length is 0, whatever the buffer holds, and               *)
(* BLE_ERROR_UNSPECIFIED when no record has both the given type and        *)
(* exactly the given length (a record of the type with another length      *)
(* included); in both cases the buffer and the payload length are as they  *)
(* were.                                                                   *)
(***************************************************************************)
C11_UpdateDataErrors ==
    call.op = "updateData" =>
        /\ (call.isNull \/ N = 0)
           => (call.result = BLE_ERROR_INVALID_PARAM /\ Unchanged)
        /\ (~call.isNull /\ N > 0 /\ C10_Matches = {})
           => (call.result = BLE_ERROR_UNSPECIFIED /\ Unchanged)

\* a non-empty value, a record of the type but of another length
C11_Witness ==
    /\ call.op = "updateData"
    /\ ~call.isNull /\ N > 0
    /\ OfType(PreRecords, call.type) # {}
    /\ C10_Matches = {}
    /\ call.result = BLE_ERROR_UNSPECIFIED
    /\ call.preLen > 0

(***************************************************************************)
(* C12.  clear() called in any reachable state leaves the payload length 0 *)
(* and all 31 buffer bytes zero, and it is idempotent: the state after     *)
(* clear(); clear() is the state after one clear().                        *)
(***************************************************************************)
C12_ClearResets ==
    call.op = "clear" =>
        /\ _payloadLen = 0
        /\ \A i \in 0..(GAP_ADVERTISING_DATA_MAX_PAYLOAD - 1) : At(_payload, i) = 0
        /\ call.preOp = "clear"
           => (Unchanged /\ _appearance = call.preAppearance)

\* the second of two clear() calls that follow an addAppearance call
C12_Witness ==
    /\ call.op = "clear"
    /\ call.preOp = "clear"
    /\ nOps = 3
    /\ _payloadLen = 0
    /\ _appearance # GENERIC_TAG

(***************************************************************************)
(* C13.  Starting from an empty store, adding fields of pairwise distinct  *)
(* types through the wrappers gives a payload length equal to the sum of   *)
(* (valueLength + 2) over the added fields, each type being findable; in   *)
(* particular addFlags(0x02), addAppearance(512), addTxPower(-20) all      *)
(* succeed, getPayloadLen() is 9, getAppearance() is 512 and findField     *)
(* finds FLAGS, APPEARANCE and TX_POWER_LEVEL.                             *)
(***************************************************************************)
\* the type a wrapper adds and the size of the argument it adds
C13_Type(op) ==
    CASE op = "addFlags" -> FLAGS
      [] op = "addAppearance" -> APPEARANCE
      [] op = "addTxPower" -> TX_POWER_LEVEL

C13_ValueLength(op) == IF op = "addAppearance" THEN 2 ELSE 1

RECURSIVE C13_Sum(_)
C13_Sum(calls) ==
    IF calls = << >> THEN 0
    ELSE C13_ValueLength(Head(calls).op) + 2 + C13_Sum(Tail(calls))

C13_Distinct(calls) ==
    \A i, j \in 1..Len(calls) : i # j => calls[i].op # calls[j].op

C13_Scenario ==
    wrapperCalls.calls =
        <<[op |-> "addFlags", arg |-> LE_GENERAL_DISCOVERABLE, result |-> BLE_ERROR_NONE],
          [op |-> "addAppearance", arg |-> 512, result |-> BLE_ERROR_NONE],
          [op |-> "addTxPower", arg |-> -20, result |-> BLE_ERROR_NONE]>>

C13_EndToEnd(total) ==
    LET calls == wrapperCalls.calls
    IN  (wrapperCalls.wrappersOnly /\ C13_Distinct(calls))
        => /\ \A i \in 1..Len(calls) :
                /\ calls[i].result = BLE_ERROR_NONE
                /\ findField(_payload, _payloadLen, C13_Type(calls[i].op)) # NULL
           /\ _payloadLen = C13_Sum(calls)
           /\ (Len(calls) = 3 /\ calls[1].op = "addFlags" /\ calls[1].arg = 2
                  /\ calls[2].op = "addAppearance" /\ calls[2].arg = 512
                  /\ calls[3].op = "addTxPower" /\ calls[3].arg = -20)
              => (C13_Scenario /\ _payloadLen = total /\ _appearance = 512)

\* as claimed: the example gives getPayloadLen() == 9
C13_WrappersEndToEnd == C13_EndToEnd(9)

\* C13 as amended: the example gives getPayloadLen() == 10, which is the
\* sum 3 + 4 + 3 of (valueLength + 2) over the three fields
C13_WrappersEndToEndTen == C13_EndToEnd(10)

\* the three calls of the example have been made on a new store
C13_Witness ==
    /\ wrapperCalls.wrappersOnly
    /\ C13_Scenario
    /\ call.op = "addTxPower"
    /\ _payloadLen = 10

(***************************************************************************)
(* C14.  The cached appearance mirrors the buffer: getAppearance() is the  *)
(* 16-bit value of the APPEARANCE field most recently written into the     *)
(* buffer (through addAppearance, addData or updateData), or the           *)
(* constructor's default if none was written; a call that writes no        *)
(* appearance bytes (addAppearance failing with an overflow, say) does not *)
(* change it.                                                              *)
(***************************************************************************)
\* the last call stored the bytes of an APPEARANCE field in the buffer
C14_WroteAppearance ==
    /\ call.type = APPEARANCE
    /\ \/ IsAdd /\ WroteField(call.prePayload, call.preLen, call.type,
                              call.value, call.result)
       \/ call.op = "updateData" /\ call.result = BLE_ERROR_NONE

C14_AppearanceMirrorsBuffer ==
    /\ appearanceWritten # NULL => _appearance = appearanceWritten
    /\ ~C14_WroteAppearance => _appearance = call.preAppearance

(***************************************************************************)
(* C15.  Every public operation of the store completes; in particular a    *)
(* call of the public (const) findField(type) eventually returns, with the *)
(* position of the matching record or with not-found once the scan has     *)
(* reached the payload length.                                             *)
(***************************************************************************)
C15_ConstFindFieldReturns == (pc = "findField") ~> (pc = "idle")

(***************************************************************************)
(* C16.  Byte shifting stays inside the buffer: every byte addData reads   *)
(* or writes while closing or opening a gap has an index in 0..30, also    *)
(* when length + n is 31 and when length is 31 and n is 0.                 *)
(***************************************************************************)
C16_ShiftInBounds ==
    IsAdd => call.hi < GAP_ADVERTISING_DATA_MAX_PAYLOAD

(***************************************************************************)
(* C17.  DFU hand-off ordering: when onDataWritten is delivered for a      *)
(* write whose characteristic handle equals the handle of the DFU control  *)
(* point, the application's handover callback (if one was provided) is     *)
(* invoked first and bootloader_start after it has returned; for a write   *)
(* to any other handle neither of them is invoked.                         *)
(***************************************************************************)
\* the service whose handler the write was delivered to
C17_Service == dfuServices[written.handlers[1]]

C17_HandOffOrdering ==
    written.handlers # << >>
    => LET provided == C17_Service.handoverCallback
       IN  IF written.charHandle = C17_Service.handle
           THEN invoked = written.preInvoked
                            \o (IF provided # NoHandover THEN <<provided>> ELSE << >>)
                            \o <<"bootloader_start">>
           ELSE invoked = written.preInvoked

\* a write to the control point of a service that was given a callback,
\* after a write to another handle and a second construction
C17_Witness ==
    /\ written.handlers # << >>
    /\ Len(dfuServices) >= 2
    /\ written.charHandle = C17_Service.handle
    /\ C17_Service.handoverCallback = "prepareA"
    /\ invoked = <<"prepareA", "bootloader_start">>

(***************************************************************************)
(* C18.  The DFU service is added only once: however many DFUService       *)
(* objects are constructed in one process, ble.addService and the          *)
(* onDataWritten registration are performed exactly once, by the first     *)
(* construction; a later construction adds no service, registers no write  *)
(* handler and does not replace the stored handover callback.              *)
(***************************************************************************)
C18_ServiceAddedOnce ==
    IF dfuServices = << >>
    THEN bleAddService = << >> /\ bleOnDataWritten = << >>
    ELSE /\ bleAddService = <<1>>
         /\ bleOnDataWritten = <<1>>
         /\ serviceAdded
         /\ handoverCallback = dfuServices[1].handoverCallback

\* three constructions, the later ones with other callbacks than the first
C18_Witness ==
    /\ Len(dfuServices) = 3
    /\ dfuServices[2].handoverCallback # dfuServices[1].handoverCallback
    /\ dfuServices[3].handoverCallback # dfuServices[1].handoverCallback
    /\ dfuServices[2].handoverCallback # NoHandover

(***************************************************************************)
(* C19.  One completion callback per accepted request: read(offset,        *)
(* onRead) and write(length, value, onWrite) register exactly one one-shot *)
(* completion callback, keyed by the connection handle and the value       *)
(* handle, if and only if the underlying read / write request was accepted *)
(* (returned no error), and they register it after the request was         *)
(* issued; when the request is rejected they return that error and         *)
(* register no callback.                                                   *)
(***************************************************************************)
\* what the last call added to the events
C19_New == SubSeq(gattEvents, Len(gattCall.preEvents) + 1, Len(gattEvents))

C19_Launches == {i \in 1..Len(C19_New) : C19_New[i].event = "launch"}
C19_Requests == {i \in 1..Len(C19_New) : C19_New[i].event = "request"}

C19_OneShot(op) ==
    IF op = "readWithCallback" THEN "OneShotReadCallback" ELSE "OneShotWriteCallback"

C19_OneCallbackPerAcceptedRequest ==
    gattCall.op \in {"readWithCallback", "writeWithCallback"}
    => /\ SubSeq(gattEvents, 1, Len(gattCall.preEvents)) = gattCall.preEvents
       /\ Cardinality(C19_Requests) <= 1
       /\ IF gattCall.result = BLE_ERROR_NONE
          THEN /\ Len(C19_New) = 2
               /\ C19_New[1].event = "request"
               /\ C19_New[2] =
                      [event |-> "launch", op |-> C19_OneShot(gattCall.op),
                       connHandle |-> characteristic.connHandle,
                       valueHandle |-> characteristic.valueHandle,
                       n |-> 0, callback |-> gattCall.callback]
          ELSE C19_Launches = {}
       /\ C19_Requests # {}
          => /\ gattCall.result = gattCall.answer
             /\ C19_New[1].connHandle = characteristic.connHandle
             /\ C19_New[1].valueHandle = characteristic.valueHandle

\* after an earlier read request: a write the client accepted, its callback
\* launched after the request
C19_Witness ==
    /\ gattCall.op = "writeWithCallback"
    /\ gattCall.result = BLE_ERROR_NONE
    /\ Len(gattCall.preEvents) = 1
    /\ gattCall.preEvents[1].op = "read"
    /\ Len(gattEvents) = 3
    /\ gattEvents[3].event = "launch"
    /\ gattEvents[3].callback = "onB"

(***************************************************************************)
(* C20.  findField scan: in every reachable state findField(type) looks    *)
(* at record boundaries only, returns the position of the length byte of   *)
(* the first record whose type byte is type, returns not-found if there is *)
(* no such record, and reads no buffer index at or beyond the payload      *)
(* length.                                                                 *)
(***************************************************************************)
\* the types looked for: those the model adds, and one it never adds
C20_Types == DataTypes \cup {TX_POWER_LEVEL, MANUFACTURER_SPECIFIC_DATA}

\* the offsets at which the records of the store begin
C20_Boundaries == {PostRecords[i].at : i \in 1..Len(PostRecords)}

\* the indices read, the byte after the buffer being _payloadLen
C20_Reads(type) == findFieldReads(Append(_payload, _payloadLen), _payloadLen, type, 0)

C20_FindFieldScan ==
    \A type \in C20_Types :
        /\ _payloadLen <= GAP_ADVERTISING_DATA_MAX_PAYLOAD
           => \A i \in C20_Reads(type) : i < _payloadLen
        /\ Decodes(_payload, _payloadLen)
           => /\ \A i \in C20_Reads(type) :
                    i \in C20_Boundaries \/ i - 1 \in C20_Boundaries
              /\ IF OfType(PostRecords, type) = {}
                 THEN findField(_payload, _payloadLen, type) = NULL
                 ELSE findField(_payload, _payloadLen, type) =
                          PostRecords[FirstOfType(PostRecords, type)].at

(***************************************************************************)
(* C21.  Request gating in DiscoveredCharacteristic: read, write and       *)
(* writeWoResponse check the characteristic's property first and the       *)
(* client second.  If the property needed (read, write, write without      *)
(* response) is not set they return BLE_ERROR_OPERATION_NOT_PERMITTED,     *)
(* also when no client is attached; else if no client is attached they     *)
(* return BLE_ERROR_INVALID_STATE; in both cases no request is issued.     *)
(* Otherwise exactly one request is issued (write with GATT_OP_WRITE_REQ,  *)
(* writeWoResponse with GATT_OP_WRITE_CMD) and its result is returned.     *)
(***************************************************************************)
\* the property an operation needs and the request it issues
C21_Property(op) ==
    CASE op = "read" -> "read"
      [] op = "write" -> "write"
      [] op = "writeWoResponse" -> "writeWoResp"

C21_Request(op) ==
    CASE op = "read" -> "read"
      [] op = "write" -> "GATT_OP_WRITE_REQ"
      [] op = "writeWoResponse" -> "GATT_OP_WRITE_CMD"

\* what the last call added to the events
C21_New == SubSeq(gattEvents, Len(gattCall.preEvents) + 1, Len(gattEvents))

C21_RequestGating ==
    gattCall.op \in {"read", "write", "writeWoResponse"}
    => /\ SubSeq(gattEvents, 1, Len(gattCall.preEvents)) = gattCall.preEvents
       /\ IF C21_Property(gattCall.op) \notin characteristic.props
          THEN gattCall.result = BLE_ERROR_OPERATION_NOT_PERMITTED /\ C21_New = << >>
          ELSE IF characteristic.gattc = NoClient
          THEN gattCall.result = BLE_ERROR_INVALID_STATE /\ C21_New = << >>
          ELSE /\ gattCall.result = gattCall.answer
               /\ C21_New =
                      <<[event |-> "request", op |-> C21_Request(gattCall.op),
                         connHandle |-> characteristic.connHandle,
                         valueHandle |-> characteristic.valueHandle,
                         n |-> gattCall.n, callback |-> ""]>>

\* the second call on a discovered characteristic: a read, with neither the
\* read property nor a client
C21_Witness ==
    /\ gattCall.op = "read"
    /\ "read" \notin characteristic.props
    /\ "writeWoResp" \in characteristic.props
    /\ characteristic.gattc = NoClient
    /\ gattCall.result = BLE_ERROR_OPERATION_NOT_PERMITTED
    /\ nGattCalls = 2

(***************************************************************************)
(* C22.  Type uniqueness: after any sequence of addData, updateData,       *)
(* wrapper and clear calls on a new store, the buffer holds at most one    *)
(* record of each type tag, be the tag replace-class, append-class or      *)
(* neither.                                                                *)
(***************************************************************************)
\* the type bytes a scan of the first n bytes meets, the byte after the
\* buffer being _payloadLen
RECURSIVE C22_TypesFrom(_, _, _)
C22_TypesFrom(mem, n, idx) ==
    IF idx < n
    THEN <<At(mem, idx + 1)>> \o C22_TypesFrom(mem, n, idx + At(mem, idx) + 1)
    ELSE << >>

C22_Types == C22_TypesFrom(Append(_payload, _payloadLen), _payloadLen, 0)

C22_TypeUniqueness ==
    _payloadLen <= GAP_ADVERTISING_DATA_MAX_PAYLOAD
    => \A i, j \in 1..Len(C22_Types) : C22_Types[i] = C22_Types[j] => i = j

(***************************************************************************)
(* C23: on a discovered characteristic with no GATT client attached, every *)
(* operation that passes its property check (read, write, writeWoResponse  *)
(* and their callback overloads, discoverDescriptors, setCCCD) returns     *)
(* BLE_ERROR_INVALID_STATE and leaves the client's events as they were: no *)
(* request, no callback registration, no CCCD-setter helper.               *)
(***************************************************************************)
C23_PassesPropertyCheck ==
    CASE gattCall.op \in {"read", "readWithCallback"} -> "read" \in characteristic.props
      [] gattCall.op \in {"write", "writeWithCallback"} -> "write" \in characteristic.props
      [] gattCall.op = "writeWoResponse" -> "writeWoResp" \in characteristic.props
      [] gattCall.op = "discoverDescriptors" -> TRUE
      [] gattCall.op = "setCCCD" ->
           /\ gattCall.n % 2 = 1 => "notify" \in characteristic.props
           /\ gattCall.n \div 2 = 1 => "indicate" \in characteristic.props
      [] OTHER -> FALSE

C23_NoOperationWithoutClient ==
    (/\ characteristic.valueHandle # INVALID_HANDLE
     /\ characteristic.gattc = NoClient
     /\ C23_PassesPropertyCheck)
    => /\ gattCall.result = BLE_ERROR_INVALID_STATE
       /\ gattEvents = gattCall.preEvents

====
